---- MODULE Spec2Model ----
(***************************************************************************)
(* dylib_hook: runtime interception of dynamically linked functions.       *)
(*                                                                         *)
(* The model is a small-step machine.  Every thread owns a call stack of   *)
(* frames; a frame is either library code of src/src/lib.rs that is in     *)
(* progress (with_hook_protection, bypass_hooks, Chain::call, add_hook,    *)
(* call_orig) or user code (a hook handler, or a closure handed to         *)
(* with_hook_protection / bypass_hooks).  User code is arbitrary: whenever *)
(* a thread is in user code it may invoke any public operation of the      *)
(* library or return.  The empty stack is the host program's own code.     *)
(***************************************************************************)
EXTENDS Integers, Sequences, FiniteSets, TLC

Threads == {"t1", "t2"}          \* OS threads that call into the library
Fns     == {"open", "read"}      \* functions declared with create_hook!
HookIds == {"h1", "h2"}          \* handler function pointers user code registers

MaxOps   == 4    \* library operations user code starts, all threads together
MaxOpsMT == 3    \* the same, in the runs with two threads
MaxHooks == 2    \* registry length per intercepted function
MaxOpsHooked == 3    \* the same as MaxOps, in the runs that start with handlers registered
MaxReadCount == 16   \* the read example: requested lengths 0..MaxReadCount,
BigRead      == 1024 \* and one request larger than any message

VARIABLES
    hooks,      \* HOOKS: per intercepted function, the Vec<HookFn> (handler ids)
    lock,       \* the Mutex around HOOKS: "free" or the thread that holds it
    flag,       \* IN_HOOK, one RefCell<bool> per thread
    real,       \* REAL: LazyLock state per function: "uninit", "running", "done"
    ptr,        \* REAL: the AtomicPtr stored by the LazyLock initialiser
    lookups,    \* number of dlsym(RTLD_NEXT, name) calls made per function
    used,       \* pointers call_orig has called through, per function
    stack,      \* per thread: the sequence of frames, the last one executing
    budget,     \* library operations user code may still start
    regd,       \* per function: the handlers of the add_hook calls done, in order
    last,       \* per thread: the record of the trampoline call that returned last
    dis,        \* per thread: "no", or where disable_hooks() ran since enable_hooks()
    rd          \* the read example of examples/block_reading

vars == <<hooks, lock, flag, real, ptr, lookups, used, stack, budget, regd, last, dis, rd>>

(***************************************************************************)
(* Values, events and frames                                               *)
(***************************************************************************)
NoVal      == <<"none", 0>>
OrigVal    == <<"orig", 0>>        \* what the original implementation returns
ClosureVal == <<"closure", 0>>     \* a closure's own value
OwnVal(pos) == <<"own", pos>>      \* the own value of the handler at chain position pos

\* What a call did, in order: the handler h at chain position p was invoked; it
\* returned v after n calls of chain.call, v being its own value ("own"), the
\* result of its last chain.call ("chain") or of another call it made
\* ("other"); the original implementation ran.
Ev(e, h, p, n, how, v) == [e |-> e, h |-> h, p |-> p, n |-> n, how |-> how, v |-> v]
EvIn(h, p)             == Ev("in", h, p, 0, "-", NoVal)
EvOut(h, p, n, how, v) == Ev("out", h, p, n, how, v)
EvOrig                 == Ev("orig", "-", 0, 0, "-", NoVal)

Frame(k) ==
    [k |-> k, fn |-> "-", h |-> "-", pc |-> "-", path |-> "-", tramp |-> FALSE,
     index |-> 0, log |-> <<>>, reg0 |-> <<>>, flag0 |-> FALSE, was |-> FALSE,
     en |-> FALSE, ncalls |-> 0, res |-> NoVal, cres |-> NoVal, ch |-> 0, pos |-> 0]

NoCall == [fn |-> "-", path |-> "-", flag0 |-> FALSE, log |-> <<>>, ret |-> NoVal,
           reg0 |-> <<>>, reg1 |-> <<>>]

Top(t)      == stack[t][Len(stack[t])]
IsUser(f)   == f.k \in {"hook", "closure"}
UserCtx(t)  == IF stack[t] = <<>> THEN TRUE ELSE IsUser(Top(t))
TopIs(t, k) == IF stack[t] = <<>> THEN FALSE ELSE Top(t).k = k
Pop(s)      == SubSeq(s, 1, Len(s) - 1)

\* A call returns v to the frame that made it: user code keeps it in a local
\* (a handler keeps the result of chain.call apart), library code goes on with
\* its exit.
Deliver(s, v, from) ==
    IF s = <<>> THEN s
    ELSE [s EXCEPT ![Len(s)] =
            IF IsUser(@)
            THEN IF from = "ccall" THEN [@ EXCEPT !.cres = v] ELSE [@ EXCEPT !.res = v]
            ELSE [@ EXCEPT !.res = v, !.pc = "ret"]]

(***************************************************************************)
(* Reentrancy guard                                                        *)
(***************************************************************************)
\* with_hook_protection: which closure runs, given the flag at the call
WhpPathAlwaysPrimary(fl) == "primary"

WhpPath(fl) == IF fl THEN "fallback" ELSE "primary"

\* with_hook_protection: the flag when the chosen closure starts
WhpEntryFlagUnset(fl) == fl

WhpEntryFlag(fl) == IF fl THEN fl ELSE TRUE

\* with_hook_protection: the flag when the function returns
WhpExitFlagAlwaysFalse(path, fl) == FALSE

WhpExitFlag(path, fl) == IF path = "primary" THEN FALSE ELSE fl

\* bypass_hooks: the flag while f runs
BypassEntryFlagUnset(fl) == fl

BypassEntryFlag(fl) == TRUE

\* IN_HOOK.with(|flag| *flag.borrow_mut() = v) on thread t: the write goes to
\* the thread's own instance of the thread-local
SetFlagShared(t, v) == [u \in DOMAIN flag |-> v]

SetFlag(t, v) == [flag EXCEPT ![t] = v]

\* bypass_hooks: the flag after f, given the saved was_in_hook
BypassExitFlagFalse(was) == FALSE

BypassExitFlag(was) == was

(***************************************************************************)
(* Hook registry and chain cursor                                          *)
(***************************************************************************)
\* HOOKS.lock().unwrap() in Chain::call: the sequence looked into is the static
\* registry as it is now; the chain (frame ch of a trampoline call) holds a
\* cursor only, no copy of the registry
ChainRegistrySnapshot(fn, ch) == ch.reg0

ChainRegistry(fn, ch) == hooks[fn]

\* hooks.get(self.index).cloned(): index counts from 0
HookAt(reg, index) == IF index < Len(reg) THEN reg[index + 1] ELSE "none"

\* Chain::new(): Chain { index: 0 }
ChainNewAtOne == [index |-> 1]

ChainNew == [index |-> 0]

\* self.index += 1
NextIndexSkips(index) == index + 2

NextIndex(index) == index + 1

\* The MutexGuard of HOOKS goes out of scope: the lock is released
DropGuardLeaked(fn) == lock

DropGuard(fn) == [lock EXCEPT ![fn] = "free"]

\* hooks.push(HookFn { f: hook })
PushHookDedup(reg, h) ==
    IF \E i \in 1..Len(reg) : reg[i] = h THEN reg ELSE Append(reg, h)

PushHook(reg, h) == Append(reg, h)

(***************************************************************************)
(* Symbol resolver                                                         *)
(***************************************************************************)
\* libc::dlsym(RTLD_NEXT, name): a function of the process's link order
Dlsym(fn) == <<"addr", fn>>
NullPtr   == <<"null", "-">>

\* LazyLock: may a thread that dereferences REAL start running the
\* initialiser, given the state
LazyMayInitRacy(st) == st # "done"

LazyMayInit(st) == st = "uninit"

(***************************************************************************)
(* Initial state: no hooks registered, no thread inside a hook, nothing    *)
(* resolved.                                                               *)
(***************************************************************************)
RdIdle == [pc |-> "idle", count |-> 0, buf |-> <<>>, ret |-> 0, index |-> 0]

Init ==
    /\ hooks   = [f \in Fns |-> <<>>]
    /\ lock    = [f \in Fns |-> "free"]
    /\ flag    = [t \in Threads |-> FALSE]
    /\ real    = [f \in Fns |-> "uninit"]
    /\ ptr     = [f \in Fns |-> NullPtr]
    /\ lookups = [f \in Fns |-> 0]
    /\ used    = [f \in Fns |-> {}]
    /\ stack   = [t \in Threads |-> <<>>]
    /\ budget  = MaxOps
    /\ last    = [t \in Threads |-> NoCall]
    /\ regd    = [f \in Fns |-> <<>>]
    /\ dis     = [t \in Threads |-> "no"]
    /\ rd      = RdIdle

Push(t, fs)  == [stack EXCEPT ![t] = @ \o fs]
StartOp      == budget > 0 /\ budget' = budget - 1

\* A frame whose exit writes FALSE to the flag
Resets(f) == (f.k = "whp" /\ f.path = "primary") \/ (f.k = "bypass" /\ ~f.was)
InResettingRegion(t) == \E i \in 1..Len(stack[t]) : Resets(stack[t][i])

(***************************************************************************)
(* Operations user code may start                                          *)
(***************************************************************************)
\* The exported trampoline fn(args): with_hook_protection(primary, fallback),
\* primary = Chain::new().call(args), fallback = chain_orig(args, &mut Chain::new())
TrampolineEnter(t, fn) ==
    /\ UserCtx(t)
    /\ LET path == WhpPath(flag[t])
           base == Len(stack[t])
           w    == [Frame("whp") EXCEPT !.fn = fn, !.tramp = TRUE, !.path = path,
                        !.index = ChainNew.index,
                        !.flag0 = flag[t], !.reg0 = regd[fn], !.pc = "run"]
           c    == IF path = "primary"
                   THEN [Frame("ccall") EXCEPT !.fn = fn, !.ch = base + 1, !.pc = "lock"]
                   ELSE [Frame("orig") EXCEPT !.fn = fn, !.ch = base + 1, !.pc = "force"]
       IN /\ flag'  = SetFlag(t, WhpEntryFlag(flag[t]))
          /\ stack' = Push(t, <<w, c>>)
    /\ UNCHANGED <<hooks, lock, real, ptr, lookups, used, regd, last, dis, rd>>

Trampoline(t, fn) == StartOp /\ TrampolineEnter(t, fn)

\* with_hook_protection(f, f2) with closures of the caller
WithHookProtection(t) ==
    /\ UserCtx(t)
    /\ StartOp
    /\ LET path == WhpPath(flag[t])
           w    == [Frame("whp") EXCEPT !.path = path, !.flag0 = flag[t], !.pc = "run"]
           c    == [Frame("closure") EXCEPT !.path = path]
       IN /\ flag'  = SetFlag(t, WhpEntryFlag(flag[t]))
          /\ stack' = Push(t, <<w, c>>)
    /\ UNCHANGED <<hooks, lock, real, ptr, lookups, used, regd, last, dis, rd>>

\* bypass_hooks(f)
BypassHooks(t) ==
    /\ UserCtx(t)
    /\ StartOp
    /\ LET b == [Frame("bypass") EXCEPT !.was = flag[t], !.flag0 = flag[t], !.pc = "run"]
           c == [Frame("closure") EXCEPT !.path = "bypass"]
       IN /\ flag'  = SetFlag(t, BypassEntryFlag(flag[t]))
          /\ stack' = Push(t, <<b, c>>)
    /\ UNCHANGED <<hooks, lock, real, ptr, lookups, used, regd, last, dis, rd>>

\* disable_hooks()
DisableHooks(t) ==
    /\ UserCtx(t)
    /\ StartOp
    /\ flag' = SetFlag(t, TRUE)
    /\ dis'  = [dis EXCEPT ![t] = IF InResettingRegion(t) THEN "scoped" ELSE "pinned"]
    /\ UNCHANGED <<hooks, lock, real, ptr, lookups, used, stack, regd, last, rd>>

\* enable_hooks()
EnableHooks(t) ==
    /\ UserCtx(t)
    /\ StartOp
    /\ flag'  = SetFlag(t, FALSE)
    /\ dis'   = [dis EXCEPT ![t] = "no"]
    /\ stack' = [stack EXCEPT ![t] = [i \in 1..Len(@) |-> [@[i] EXCEPT !.en = TRUE]]]
    /\ UNCHANGED <<hooks, lock, real, ptr, lookups, used, regd, last, rd>>

\* fn::add_hook(h): HOOKS.lock().unwrap()
AddHookLock(t, fn, h) ==
    /\ UserCtx(t)
    /\ StartOp
    /\ Len(hooks[fn]) < MaxHooks
    /\ lock[fn] = "free"
    /\ lock'  = [lock EXCEPT ![fn] = t]
    /\ stack' = Push(t, <<[Frame("addhook") EXCEPT !.fn = fn, !.h = h]>>)
    /\ UNCHANGED <<hooks, flag, real, ptr, lookups, used, regd, last, dis, rd>>

\* fn::add_hook(h): hooks.push(..), then the guard is dropped
AddHookPush(t) ==
    /\ TopIs(t, "addhook")
    /\ LET f == Top(t)
       IN /\ hooks' = [hooks EXCEPT ![f.fn] = PushHook(@, f.h)]
          /\ regd'  = [regd EXCEPT ![f.fn] = Append(@, f.h)]
          /\ lock'  = DropGuard(f.fn)
          /\ stack' = [stack EXCEPT ![t] = Pop(@)]
    /\ UNCHANGED <<flag, real, ptr, lookups, used, budget, last, dis, rd>>

\* fn::call_orig(args), called directly by user code
CallOrig(t, fn) ==
    /\ UserCtx(t)
    /\ StartOp
    /\ stack' = Push(t, <<[Frame("orig") EXCEPT !.fn = fn, !.pc = "force"]>>)
    /\ UNCHANGED <<hooks, lock, flag, real, ptr, lookups, used, regd, last, dis, rd>>

\* chain.call(args), called by a handler on the chain it was handed.  The
\* first call of a handler invocation is free, a repeated one is charged.
HandlerChainCall(t) ==
    /\ TopIs(t, "hook")
    /\ (Top(t).ncalls = 0 \/ budget > 0)
    /\ budget' = IF Top(t).ncalls = 0 THEN budget ELSE budget - 1
    /\ LET f == Top(t)
           c == [Frame("ccall") EXCEPT !.fn = f.fn, !.ch = f.ch, !.pc = "lock"]
       IN stack' = [stack EXCEPT ![t] =
                       [@ EXCEPT ![Len(@)].ncalls = f.ncalls + 1] \o <<c>>]
    /\ UNCHANGED <<hooks, lock, flag, real, ptr, lookups, used, regd, last, dis, rd>>

\* User code returns: its own value, the result of its last chain.call, or
\* the result of the last other call it made
UserReturn(t, how) ==
    /\ stack[t] # <<>>
    /\ IsUser(Top(t))
    /\ (how = "chain" => Top(t).cres # NoVal)
    /\ (how = "other" => Top(t).res # NoVal)
    /\ LET f == Top(t)
           v == CASE how = "chain" -> f.cres
                  [] how = "other" -> f.res
                  [] OTHER -> IF f.k = "hook" THEN OwnVal(f.pos) ELSE ClosureVal
           s == IF f.k = "hook"
                THEN [stack[t] EXCEPT ![f.ch].log =
                          Append(@, EvOut(f.h, f.pos, f.ncalls, how, v))]
                ELSE stack[t]
       IN stack' = [stack EXCEPT ![t] = Deliver(Pop(s), v, f.k)]
    /\ UNCHANGED <<hooks, lock, flag, real, ptr, lookups, used, budget, regd, last, dis, rd>>

(***************************************************************************)
(* Chain::call                                                             *)
(***************************************************************************)
\* let hooks = HOOKS.lock().unwrap();
ChainLock(t) ==
    /\ TopIs(t, "ccall")
    /\ Top(t).pc = "lock"
    /\ lock[Top(t).fn] = "free"
    /\ lock'  = [lock EXCEPT ![Top(t).fn] = t]
    /\ stack' = [stack EXCEPT ![t][Len(stack[t])].pc = "get"]
    /\ UNCHANGED <<hooks, flag, real, ptr, lookups, used, budget, regd, last, dis, rd>>

\* hooks.get(self.index).cloned(), the guard dropped, then the match:
\* Some(hook): self.index += 1 and the handler runs; None: chain_orig(args, self)
ChainGet(t) ==
    /\ TopIs(t, "ccall")
    /\ Top(t).pc = "get"
    /\ LET c   == Top(t)
           n   == Len(stack[t])
           cur == stack[t][c.ch].index
           hk  == HookAt(ChainRegistry(c.fn, stack[t][c.ch]), cur)
           hf  == [Frame("hook") EXCEPT !.fn = c.fn, !.h = hk, !.ch = c.ch,
                       !.pos = NextIndex(cur)]
           of  == [Frame("orig") EXCEPT !.fn = c.fn, !.ch = c.ch, !.pc = "force"]
       IN /\ lock'  = DropGuard(c.fn)
          /\ stack' = [stack EXCEPT ![t] =
                IF hk # "none"
                THEN [@ EXCEPT ![n].pc = "wait",
                               ![c.ch].index = NextIndex(cur),
                               ![c.ch].log = Append(@, EvIn(hk, NextIndex(cur)))] \o <<hf>>
                ELSE [@ EXCEPT ![n].pc = "wait"] \o <<of>>]
    /\ UNCHANGED <<hooks, flag, real, ptr, lookups, used, budget, regd, last, dis, rd>>

\* Chain::call returns what the handler, or chain_orig, returned
ChainResultOrig(v) == OrigVal

ChainResult(v) == v

ChainRet(t) ==
    /\ TopIs(t, "ccall")
    /\ Top(t).pc = "ret"
    /\ stack' = [stack EXCEPT ![t] = Deliver(Pop(@), ChainResult(Top(t).res), "ccall")]
    /\ UNCHANGED <<hooks, lock, flag, real, ptr, lookups, used, budget, regd, last, dis, rd>>

(***************************************************************************)
(* call_orig (chain_orig only forwards to it)                              *)
(***************************************************************************)
\* Dereferencing REAL: a LazyLock runs its initialiser in the first thread
\* that gets there, every other thread waits until it is done.
OrigForce(t) ==
    /\ TopIs(t, "orig")
    /\ Top(t).pc = "force"
    /\ LET fn == Top(t).fn
       IN \/ /\ real[fn] = "done"
             /\ stack' = [stack EXCEPT ![t][Len(stack[t])].pc = "call"]
             /\ UNCHANGED real
          \/ /\ LazyMayInit(real[fn])
             /\ real'  = [real EXCEPT ![fn] = "running"]
             /\ stack' = [stack EXCEPT ![t][Len(stack[t])].pc = "resolve"]
    /\ UNCHANGED <<hooks, lock, flag, ptr, lookups, used, budget, regd, last, dis, rd>>

\* The initialiser: AtomicPtr::new(dlsym(RTLD_NEXT, name))
OrigResolve(t) ==
    /\ TopIs(t, "orig")
    /\ Top(t).pc = "resolve"
    /\ LET fn == Top(t).fn
       IN /\ lookups' = [lookups EXCEPT ![fn] = @ + 1]
          /\ ptr'     = [ptr EXCEPT ![fn] = Dlsym(fn)]
          /\ real'    = [real EXCEPT ![fn] = "done"]
          /\ stack'   = [stack EXCEPT ![t][Len(stack[t])].pc = "call"]
    /\ UNCHANGED <<hooks, lock, flag, used, budget, regd, last, dis, rd>>

\* transmute(REAL.load(SeqCst))(args): the original implementation runs and
\* returns; fl is the thread's flag when call_orig returns
OrigCallWith(t, fl) ==
    /\ TopIs(t, "orig")
    /\ Top(t).pc = "call"
    /\ LET f == Top(t)
           s == IF f.ch = 0 THEN stack[t]
                ELSE [stack[t] EXCEPT ![f.ch].log = Append(@, EvOrig)]
       IN /\ used'  = [used EXCEPT ![f.fn] = @ \cup {ptr[f.fn]}]
          /\ stack' = [stack EXCEPT ![t] = Deliver(Pop(s), OrigVal, "orig")]
          /\ flag'  = SetFlag(t, fl)
    /\ UNCHANGED <<hooks, lock, real, ptr, lookups, budget, regd, last, dis, rd>>

OrigCallClearsFlag(t) == OrigCallWith(t, FALSE)

OrigCall(t) == OrigCallWith(t, flag[t])

(***************************************************************************)
(* Exits of the guarded regions                                            *)
(***************************************************************************)
\* with_hook_protection returns: after f() the flag is set to false, after
\* f2() nothing is written.  The trampoline returns the same value.
WhpExit(t) ==
    /\ TopIs(t, "whp")
    /\ Top(t).pc = "ret"
    /\ LET f == Top(t)
       IN /\ flag'  = SetFlag(t, WhpExitFlag(f.path, flag[t]))
          /\ stack' = [stack EXCEPT ![t] = Deliver(Pop(@), f.res, "whp")]
          /\ last'  = IF f.tramp
                      THEN [last EXCEPT ![t] =
                              [fn |-> f.fn, path |-> f.path, flag0 |-> f.flag0,
                               log |-> f.log, ret |-> f.res, reg0 |-> f.reg0, reg1 |-> regd[f.fn]]]
                      ELSE last
    /\ UNCHANGED <<hooks, lock, real, ptr, lookups, used, budget, regd, dis, rd>>

\* bypass_hooks returns: the flag is set back to was_in_hook
BypassExit(t) ==
    /\ TopIs(t, "bypass")
    /\ Top(t).pc = "ret"
    /\ flag'  = SetFlag(t, BypassExitFlag(Top(t).was))
    /\ stack' = [stack EXCEPT ![t] = Deliver(Pop(@), Top(t).res, "bypass")]
    /\ UNCHANGED <<hooks, lock, real, ptr, lookups, used, budget, regd, last, dis, rd>>

(***************************************************************************)
(* The program                                                             *)
(***************************************************************************)
\* One step of thread t, the intercepted functions it uses drawn from F
Step(t, F) ==
    \/ \E fn \in F : Trampoline(t, fn)
    \/ WithHookProtection(t)
    \/ BypassHooks(t)
    \/ DisableHooks(t)
    \/ EnableHooks(t)
    \/ \E fn \in F, h \in HookIds : AddHookLock(t, fn, h)
    \/ AddHookPush(t)
    \/ \E fn \in F : CallOrig(t, fn)
    \/ HandlerChainCall(t)
    \/ \E how \in {"own", "chain", "other"} : UserReturn(t, how)
    \/ ChainLock(t)
    \/ ChainGet(t)
    \/ ChainRet(t)
    \/ OrigForce(t)
    \/ OrigResolve(t)
    \/ OrigCall(t)
    \/ WhpExit(t)
    \/ BypassExit(t)

\* One thread uses the library
Next == Step("t1", Fns)

Spec == Init /\ [][Next]_vars

\* Two threads use the library concurrently
InitMT ==
    /\ hooks   = [f \in Fns |-> <<>>]
    /\ lock    = [f \in Fns |-> "free"]
    /\ flag    = [t \in Threads |-> FALSE]
    /\ real    = [f \in Fns |-> "uninit"]
    /\ ptr     = [f \in Fns |-> NullPtr]
    /\ lookups = [f \in Fns |-> 0]
    /\ used    = [f \in Fns |-> {}]
    /\ stack   = [t \in Threads |-> <<>>]
    /\ budget  = MaxOpsMT
    /\ regd    = [f \in Fns |-> <<>>]
    /\ last    = [t \in Threads |-> NoCall]
    /\ dis     = [t \in Threads |-> "no"]
    /\ rd      = RdIdle

NextMT == \E t \in Threads : Step(t, Fns)

SpecMT == InitMT /\ [][NextMT]_vars

\* User code panics and the panic is caught (catch_unwind) by user code further
\* up the stack of thread t, in frame c, or by the host when c = 0.  Unwinding
\* drops the frames above c; with_hook_protection and bypass_hooks hold no
\* value whose drop writes the flag, so the statement after f() / f2() is
\* skipped.  A panic cannot unwind out of an exported trampoline (extern "C").
Panic(t) ==
    /\ stack[t] # <<>>
    /\ IsUser(Top(t))
    /\ \E c \in 0..(Len(stack[t]) - 2) :
          /\ c > 0 => IsUser(stack[t][c])
          /\ \A i \in (c + 1)..Len(stack[t]) : ~stack[t][i].tramp
          /\ stack' = [stack EXCEPT ![t] = SubSeq(@, 1, c)]
    /\ UNCHANGED <<hooks, lock, flag, real, ptr, lookups, used, budget, regd, last, dis, rd>>

\* One thread uses the library, its closures may panic
NextUnwind == Next \/ Panic("t1")

SpecUnwind == Init /\ [][NextUnwind]_vars

\* Calls through a registry that stays as it is: handlers were registered at
\* load time, the host calls the intercepted functions again and again, and a
\* handler calls chain.call at most once, calls intercepted functions (the
\* one it handles included) and returns; nothing toggles the flag.  Every
\* function has the same number n of handlers, n up to MaxHooks.
Registries == {[i \in 1..n |-> "h1"] : n \in 0..MaxHooks}

InitLive ==
    /\ \E r \in Registries : hooks = [f \in Fns |-> r]
    /\ regd    = hooks
    /\ lock    = [f \in Fns |-> "free"]
    /\ flag    = [t \in Threads |-> FALSE]
    /\ real    = [f \in Fns |-> "uninit"]
    /\ ptr     = [f \in Fns |-> NullPtr]
    /\ lookups = [f \in Fns |-> 0]
    /\ used    = [f \in Fns |-> {}]
    /\ stack   = [t \in Threads |-> <<>>]
    /\ budget  = 0
    /\ last    = [t \in Threads |-> NoCall]
    /\ dis     = [t \in Threads |-> "no"]
    /\ rd      = RdIdle

LiveCall(t) == \E fn \in Fns : TrampolineEnter(t, fn) /\ UNCHANGED budget

LiveChainCall(t) == TopIs(t, "hook") /\ Top(t).ncalls = 0 /\ HandlerChainCall(t)

LiveReturn(t) == \E how \in {"own", "chain", "other"} : UserReturn(t, how)

\* The steps of library code and of the original implementation
LiveLib(t) ==
    \/ ChainLock(t)
    \/ ChainGet(t)
    \/ ChainRet(t)
    \/ OrigForce(t)
    \/ OrigResolve(t)
    \/ OrigCall(t)
    \/ WhpExit(t)

NextLive ==
    \/ LiveCall("t1")
    \/ LiveChainCall("t1")
    \/ LiveReturn("t1")
    \/ LiveLib("t1")

\* Library code and the original run to their end; a handler returns
FairLive == WF_vars(LiveLib("t1")) /\ SF_vars(LiveReturn("t1"))

SpecLive == InitLive /\ [][NextLive]_vars /\ FairLive

\* The library after its user's load-time initialisation: every intercepted
\* function has had one handler registered (as a #[ctor] function does)
InitHooked ==
    /\ \E h \in [Fns -> HookIds] :
          /\ hooks = [f \in Fns |-> <<h[f]>>]
          /\ regd  = [f \in Fns |-> <<h[f]>>]
    /\ lock    = [f \in Fns |-> "free"]
    /\ flag    = [t \in Threads |-> FALSE]
    /\ real    = [f \in Fns |-> "uninit"]
    /\ ptr     = [f \in Fns |-> NullPtr]
    /\ lookups = [f \in Fns |-> 0]
    /\ used    = [f \in Fns |-> {}]
    /\ stack   = [t \in Threads |-> <<>>]
    /\ budget  = MaxOpsHooked
    /\ last    = [t \in Threads |-> NoCall]
    /\ dis     = [t \in Threads |-> "no"]
    /\ rd      = RdIdle

SpecHooked == InitHooked /\ [][Next]_vars

(***************************************************************************)
(* examples/block_reading: read is intercepted and block_read_hook is the  *)
(* one handler, registered by the #[ctor] function before main runs.       *)
(***************************************************************************)
\* b"No peeking!\n"
Message == <<78, 111, 32, 112, 101, 101, 107, 105, 110, 103, 33, 10>>

Min(a, b) == IF a < b THEN a ELSE b

\* let len = count.min(message.len());
BlockReadLen(count) == Min(count, Len(Message))

\* buf_slice.copy_from_slice(&message[..len]) on the first len bytes of buf
BlockReadBuf(buf, count) ==
    [i \in 1..Len(buf) |-> IF i <= BlockReadLen(count) THEN Message[i] ELSE buf[i]]

\* The value block_read_hook returns: count as isize (every count drawn here
\* is below isize::MAX, where the cast keeps the value)
BlockReadRet(count) == count

ReadCounts == (0..MaxReadCount) \cup {BigRead}
ReadThread == "t1"

\* The caller is about to call read(fd, buf, count) on a buffer of count bytes
InitRead ==
    /\ hooks   = [f \in Fns |-> IF f = "read" THEN <<"block_read_hook">> ELSE <<>>]
    /\ regd    = [f \in Fns |-> IF f = "read" THEN <<"block_read_hook">> ELSE <<>>]
    /\ lock    = [f \in Fns |-> "free"]
    /\ flag    = [t \in Threads |-> FALSE]
    /\ real    = [f \in Fns |-> "uninit"]
    /\ ptr     = [f \in Fns |-> NullPtr]
    /\ lookups = [f \in Fns |-> 0]
    /\ used    = [f \in Fns |-> {}]
    /\ stack   = [t \in Threads |-> <<>>]
    /\ budget  = 0
    /\ last    = [t \in Threads |-> NoCall]
    /\ dis     = [t \in Threads |-> "no"]
    /\ \E count \in ReadCounts, fill \in {0, 255} :
          rd = [pc |-> "call", count |-> count, buf |-> [i \in 1..count |-> fill],
                ret |-> 0, index |-> 0]

\* The trampoline read(fd, buf, count): with_hook_protection takes the primary
\* path and builds the chain
ReadEnter ==
    /\ rd.pc = "call"
    /\ WhpPath(flag[ReadThread]) = "primary"
    /\ flag' = SetFlag(ReadThread, WhpEntryFlag(flag[ReadThread]))
    /\ rd'   = [rd EXCEPT !.pc = "chain", !.index = 0]
    /\ UNCHANGED <<hooks, lock, real, ptr, lookups, used, stack, budget, regd, last, dis>>

\* Chain::call finds block_read_hook at the cursor and runs it; the handler
\* never calls chain.call
ReadHook ==
    /\ rd.pc = "chain"
    /\ HookAt(hooks["read"], rd.index) = "block_read_hook"
    /\ rd' = [rd EXCEPT !.pc = "ret", !.index = NextIndex(@),
                        !.buf = BlockReadBuf(@, rd.count),
                        !.ret = ChainResult(BlockReadRet(rd.count))]
    /\ UNCHANGED <<hooks, lock, flag, real, ptr, lookups, used, stack, budget, regd,
                   last, dis>>

\* with_hook_protection resets the flag and the trampoline returns
ReadExit ==
    /\ rd.pc = "ret"
    /\ flag' = SetFlag(ReadThread, WhpExitFlag("primary", flag[ReadThread]))
    /\ rd'   = [rd EXCEPT !.pc = "done"]
    /\ UNCHANGED <<hooks, lock, real, ptr, lookups, used, stack, budget, regd, last, dis>>

NextRead == ReadEnter \/ ReadHook \/ ReadExit

SpecRead == InitRead /\ [][NextRead]_vars

(***************************************************************************)
(* Properties.  The log of a trampoline call lists what ran on its chain.  *)
(***************************************************************************)
IsIn(e)    == e.e = "in"
IsOrder(e) == e.e \in {"in", "orig"}
Ins(log)   == SelectSeq(log, IsIn)
Order(log) == SelectSeq(log, IsOrder)

\* The invocation events of the handlers of reg, in the order of reg
InsOf(reg) == [i \in 1..Len(reg) |-> EvIn(reg[i], i)]

\* Every handler that ran called chain.call exactly once / at most once
OnceEach(log)   == \A i \in 1..Len(log) : log[i].e = "out" => log[i].n = 1
AtMostOnce(log) == \A i \in 1..Len(log) : log[i].e = "out" => log[i].n <= 1

\* The event at j is a handler returning without having called chain.call
EarlyAt(log, j) == log[j].e = "out" /\ log[j].n = 0

\* C1: a top-level trampoline call (flag false on entry) during which no add_hook
\* completed and in which every handler called chain.call exactly once has run
\* the handlers H1..Hn of the add_hook calls, each once, in that order, and
\* then the original implementation once.
C1_RegistrationOrder ==
    \A t \in Threads :
        LET c == last[t]
        IN (c.path = "primary" /\ ~c.flag0 /\ c.reg0 = c.reg1 /\ OnceEach(c.log))
            => Order(c.log) = InsOf(c.reg0) \o <<EvOrig>>

\* A call through two different handlers has returned
C1_Witness ==
    \E t \in Threads :
        LET c == last[t]
        IN /\ c.path = "primary" /\ c.reg0 = c.reg1 /\ OnceEach(c.log)
           /\ Len(c.reg0) = 2 /\ c.reg0[1] # c.reg0[2]
           /\ Len(c.log) = 5

\* C2 as stated: if a handler Hk returns without calling chain.call, then in
\* that trampoline call no handler runs after it, the original does not run,
\* and the trampoline returns Hk's value when every earlier handler returns
\* the result of chain.call.
C2_AsStated ==
    \A t \in Threads :
        LET c == last[t]
            L == c.log
        IN c.path = "primary" =>
            \A j \in 1..Len(L) : EarlyAt(L, j) =>
                /\ \A i \in 1..Len(L) : L[i].e # "orig"
                /\ \A i \in (j + 1)..Len(L) : L[i].e # "in"
                /\ (\A i \in 1..Len(L) : (L[i].e = "out" /\ L[i].p < L[j].p)
                                               => L[i].how = "chain")
                      => c.ret = L[j].v

\* C2, amended: a handler invocation that returns without calling chain.call is
\* followed by nothing on its chain (no later handler, no original) before it
\* returns; its value is what the trampoline returns when every handler
\* returning after it returns the result of chain.call; and in a call in which
\* no handler calls chain.call more than once, the handlers that ran are
\* H1..Hk, in that order, and the original did not run.
C2_EarlyReturn ==
    \A t \in Threads :
        LET c == last[t]
            L == c.log
            k == Len(Ins(L))
        IN c.path = "primary" =>
            /\ \A j \in 1..Len(L) : EarlyAt(L, j) =>
                  /\ j > 1
                  /\ L[j - 1] = EvIn(L[j].h, L[j].p)
                  /\ L[j].how # "chain"
                  /\ (\A i \in (j + 1)..Len(L) : L[i].e = "out" /\ L[i].how = "chain")
                        => c.ret = L[j].v
            /\ (AtMostOnce(L) /\ \E j \in 1..Len(L) : EarlyAt(L, j)) =>
                  /\ \A i \in 1..Len(L) : L[i].e # "orig"
                  /\ k <= Len(c.reg1)
                  /\ Ins(L) = InsOf(SubSeq(c.reg1, 1, k))
                  /\ EarlyAt(L, k + 1) /\ L[k + 1].h = c.reg1[k] /\ L[k + 1].p = k

\* The first of two registered handlers returned early
C2_Witness ==
    \E t \in Threads :
        LET c == last[t]
        IN /\ c.path = "primary" /\ Len(c.reg0) = 2 /\ c.reg0 = c.reg1
           /\ c.log = <<EvIn(c.reg0[1], 1), EvOut(c.reg0[1], 1, 0, "own", OwnVal(1))>>
           /\ c.ret = OwnVal(1)

\* A trampoline call made while the thread's flag was true
IsNested(f) == f.k = "whp" /\ f.tramp /\ f.flag0

C3_Inv ==
    \A t \in Threads :
        /\ \A i \in 1..Len(stack[t]) :
              LET f == stack[t][i]
              IN IsNested(f) =>
                    /\ f.path = "fallback"
                    /\ f.index = 0
                    /\ f.log \in {<<>>, <<EvOrig>>}
                    /\ (f.pc = "run" => i + 1 = Len(stack[t]) /\ stack[t][i + 1].k = "orig")
        /\ last[t].flag0 =>
              /\ last[t].path = "fallback"
              /\ last[t].log = <<EvOrig>>
              /\ last[t].ret = OrigVal

\* While a nested call is in progress, and when it starts, the frames under
\* it keep their cursor and their log
C3_Act ==
    \A t \in Threads :
        \A j \in 1..Len(stack'[t]) :
            (IsNested(stack'[t][j]) \/ (j <= Len(stack[t]) /\ IsNested(stack[t][j])))
            => \A i \in 1..(j - 1) :
                  /\ i <= Len(stack[t])
                  /\ stack'[t][i].index = stack[t][i].index
                  /\ stack'[t][i].log = stack[t][i].log
                  /\ stack'[t][i].k = stack[t][i].k

\* C3: a trampoline call made while the thread's flag is true (as from inside a
\* handler of the same function) takes the fallback path: it runs no handler,
\* only the original implementation, and returns its value; the chains of the
\* calls in progress under it keep their cursor and their log.
C3_NestedCallGoesToOriginal == []C3_Inv /\ [][C3_Act]_vars

\* A handler that has not called chain.call has called its own intercepted
\* function, with handlers registered, and got the original's value
C3_Witness ==
    \E t \in Threads :
        /\ TopIs(t, "hook")
        /\ Top(t).ncalls = 0 /\ Top(t).res = OrigVal
        /\ last[t].flag0 /\ last[t].fn = Top(t).fn /\ last[t].reg0 # <<>>
        /\ last[t].log = <<EvOrig>>
        /\ stack[t][Top(t).ch].log = <<EvIn(Top(t).h, 1)>>

\* A step of call_orig (chain_orig only forwards to it)
C4_Act ==
    \A t \in Threads :
        TopIs(t, "orig") =>
            /\ flag'[t] = flag[t]
            /\ Len(stack'[t]) <= Len(stack[t])
            /\ \A i \in 1..Len(stack'[t]) :
                  /\ stack'[t][i].index = stack[t][i].index
                  /\ Ins(stack'[t][i].log) = Ins(stack[t][i].log)
                  /\ stack'[t][i].k # "hook" \/ stack[t][i].k = "hook"

\* C4: call_orig and chain_orig invoke no handler, whatever the registry holds
\* and whatever the flag is: their steps start no handler, leave every chain
\* cursor as it is and do not change the thread's flag.
C4_OrigBypassesHooks == [][C4_Act]_vars

\* call_orig, called directly with the flag false and handlers registered, is
\* about to call the original
C4_Witness ==
    \E t \in Threads :
        /\ TopIs(t, "orig")
        /\ Top(t).ch = 0 /\ Top(t).pc = "call"
        /\ hooks[Top(t).fn] # <<>>
        /\ ~flag[t]

\* The frame g runs the closure with_hook_protection (frame f) chose
RunsChosen(f, g) ==
    IF f.tramp
    THEN g.k = (IF f.path = "primary" THEN "ccall" ELSE "orig")
    ELSE g.k = "closure" /\ g.path = f.path

\* What holds of every with_hook_protection in progress whatever its closures
\* do: the path, and that the one chosen closure is the one running
C5_Paths(t, i) ==
    LET f == stack[t][i]
    IN /\ (f.path = "fallback") <=> f.flag0
       /\ (f.path = "primary") <=> ~f.flag0
       /\ f.pc \in {"run", "ret"}
       /\ (f.pc = "run" => i < Len(stack[t]) /\ RunsChosen(f, stack[t][i + 1]))
       /\ (f.pc = "ret" => i = Len(stack[t]))

\* C5 as stated: the fallback runs iff the flag was true at the call, exactly
\* one closure runs, and the flag is true for the whole of primary's execution.
C5_AsStated ==
    \A t \in Threads : \A i \in 1..Len(stack[t]) :
        stack[t][i].k = "whp" =>
            /\ C5_Paths(t, i)
            /\ (stack[t][i].path = "primary" => flag[t])

\* C5, amended: the fallback runs iff the flag was true at the call, exactly one
\* closure runs, and until the closure has returned the flag is true unless
\* code run inside the closure has called enable_hooks().
C5_WithHookProtection ==
    \A t \in Threads : \A i \in 1..Len(stack[t]) :
        stack[t][i].k = "whp" =>
            /\ C5_Paths(t, i)
            /\ (~stack[t][i].en => flag[t])

\* with_hook_protection called inside the primary closure of another one: the
\* outer one took the primary path, the inner one the fallback
C5_Witness ==
    \E t \in Threads :
        /\ Len(stack[t]) = 4
        /\ stack[t][1].k = "whp" /\ ~stack[t][1].tramp /\ stack[t][1].path = "primary"
        /\ stack[t][3].k = "whp" /\ ~stack[t][3].tramp /\ stack[t][3].path = "fallback"
        /\ stack[t][4].k = "closure"
        /\ ~stack[t][1].en

\* Thread t leaves a guarded region in this step
RegionExit(t) ==
    /\ stack[t] # <<>>
    /\ Top(t).k \in {"whp", "bypass"}
    /\ Top(t).pc = "ret"
    /\ Len(stack'[t]) = Len(stack[t]) - 1

C9_Inv ==
    \A t \in Threads : \A i \in 1..Len(stack[t]) :
        (stack[t][i].k = "bypass" /\ ~stack[t][i].en) =>
            /\ flag[t]
            /\ \A j \in (i + 1)..Len(stack[t]) :
                  (stack[t][j].k = "whp" /\ stack[t][j].tramp) =>
                      /\ stack[t][j].path = "fallback"
                      /\ Ins(stack[t][j].log) = <<>>
                      /\ stack[t][j].index = 0

C9_Act ==
    \A t \in Threads :
        (RegionExit(t) /\ Top(t).k = "bypass") => flag'[t] = Top(t).flag0

C9_BypassHooks == []C9_Inv /\ [][C9_Act]_vars

\* Inside bypass_hooks entered with the flag false, a trampoline call of a
\* function with a handler has returned the original's value
C9_Witness ==
    \E t \in Threads :
        /\ Len(stack[t]) = 2
        /\ stack[t][1].k = "bypass" /\ ~stack[t][1].flag0 /\ ~stack[t][1].en
        /\ stack[t][2].k = "closure" /\ stack[t][2].res = OrigVal
        /\ last[t].path = "fallback" /\ last[t].reg0 # <<>>
        /\ last[t].log = <<EvOrig>>

\* C10 as stated: after disable_hooks() the flag is true until the thread calls
\* enable_hooks().
C10_AsStated == \A t \in Threads : dis[t] # "no" => flag[t]

\* C10, amended: disable_hooks() called outside every with_hook_protection
\* primary region (so outside every handler) and outside every bypass_hooks
\* region entered with the flag false keeps the flag true, and every
\* trampoline call of the thread on the fallback path with no handler run,
\* until the thread calls enable_hooks(); called inside such a region its
\* effect ends when the region returns.
C10_Inv ==
    \A t \in Threads :
        dis[t] = "pinned" =>
            /\ flag[t]
            /\ \A i \in 1..Len(stack[t]) :
                  (stack[t][i].k = "whp" /\ stack[t][i].tramp) =>
                      /\ stack[t][i].path = "fallback"
                      /\ Ins(stack[t][i].log) = <<>>

C10_Act ==
    \A t \in Threads :
        (dis[t] # "no" /\ flag[t] /\ ~flag'[t]) =>
            \/ dis'[t] = "no"
            \/ dis[t] = "scoped" /\ RegionExit(t) /\ Resets(Top(t))

C10_DisableHooks == []C10_Inv /\ [][C10_Act]_vars

\* After disable_hooks() at the top level, a trampoline call of a function with
\* a handler has returned the original's value and the flag is still true
C10_Witness ==
    \E t \in Threads :
        /\ dis[t] = "pinned" /\ stack[t] = <<>> /\ flag[t]
        /\ last[t].path = "fallback" /\ last[t].reg0 # <<>>
        /\ last[t].log = <<EvOrig>>

\* C7: dlsym(RTLD_NEXT, ..) runs at most once per intercepted function, also
\* when threads make their first call_orig concurrently, and every call of the
\* original goes through the one pointer it returned.
C7_ResolvedOnce ==
    /\ \A fn \in Fns :
          /\ lookups[fn] <= 1
          /\ used[fn] \subseteq {Dlsym(fn)}
          /\ (real[fn] = "done") <=> (lookups[fn] = 1 /\ ptr[fn] = Dlsym(fn))
    /\ \A t \in Threads : \A i \in 1..Len(stack[t]) :
          (stack[t][i].k = "orig" /\ stack[t][i].pc = "call")
              => real[stack[t][i].fn] = "done"

\* Two threads are both about to call the original of the same function, one
\* of them having run the lookup
C7_Witness ==
    \E t1, t2 \in Threads :
        /\ t1 # t2
        /\ TopIs(t1, "orig") /\ TopIs(t2, "orig")
        /\ Top(t1).fn = Top(t2).fn
        /\ Top(t1).pc = "call" /\ Top(t2).pc = "call"
        /\ lookups[Top(t1).fn] = 1
        /\ used[Top(t1).fn] = {}

\* C8: with block_read_hook registered, read with requested length N leaves
\* the first min(N, 12) bytes of the message in the caller's buffer, the rest
\* of the buffer as it was, and returns min(N, 12).
C8_ReadReturnsBytesWritten ==
    rd.pc = "done" =>
        LET n == Min(rd.count, Len(Message))
        IN /\ Len(rd.buf) = rd.count
           /\ SubSeq(rd.buf, 1, n) = SubSeq(Message, 1, n)
           /\ rd.ret = n

\* The chain.call calls the handlers of a log made, beyond one per invocation
RECURSIVE ExtraCalls(_)
ExtraCalls(log) ==
    IF log = <<>> THEN 0
    ELSE (IF Head(log).e = "out" /\ Head(log).n > 1 THEN Head(log).n - 1 ELSE 0)
         + ExtraCalls(Tail(log))

CountOf(log, ev) == Cardinality({i \in 1..Len(log) : log[i] = ev})

\* C11 as stated: when the handler at position k calls chain.call n > 1 times
\* in one invocation, every one of those calls runs the handlers registered
\* after position k, so the handler at position k + 1 is invoked n times.
C11_AsStated ==
    \A t \in Threads :
        LET c == last[t]
            L == c.log
        IN (c.path = "primary" /\ c.reg0 = c.reg1) =>
            \A j \in 1..Len(L) :
                (L[j].e = "out" /\ L[j].n > 1 /\ L[j].p < Len(c.reg0))
                => CountOf(L, EvIn(c.reg0[L[j].p + 1], L[j].p + 1)) >= L[j].n

\* C11, amended: the chain's cursor never moves back, so a chain.call continues
\* from the first registry position this trampoline call has not invoked yet:
\* the positions invoked are 1, 2, .. in order, each once; and in a call with
\* an unmodified registry in which no handler returns without calling
\* chain.call, every handler runs exactly once in registration order however
\* often handlers call chain.call, the original runs once for the chain and
\* once more for every chain.call a handler makes beyond its first.
C11_CursorContinues ==
    \A t \in Threads :
        LET c == last[t]
            L == c.log
        IN c.path = "primary" =>
            /\ \A i \in 1..Len(Ins(L)) : Ins(L)[i].p = i
            /\ (c.reg0 = c.reg1 /\ \A j \in 1..Len(L) : ~EarlyAt(L, j)) =>
                  /\ Ins(L) = InsOf(c.reg0)
                  /\ CountOf(L, EvOrig) = 1 + ExtraCalls(L)

\* The first of two handlers called chain.call twice: the second handler ran
\* once, the original twice
C11_Witness ==
    \E t \in Threads :
        LET c == last[t]
        IN /\ c.path = "primary" /\ c.reg0 = c.reg1 /\ Len(c.reg0) = 2
           /\ Order(c.log) = <<EvIn(c.reg0[1], 1), EvIn(c.reg0[2], 2), EvOrig, EvOrig>>
           /\ \E j \in 1..Len(c.log) :
                 c.log[j].e = "out" /\ c.log[j].p = 1 /\ c.log[j].n = 2

\* The step is one of thread t: it changes t's stack, t's toggle record or
\* starts an operation, and no other thread's stack or toggle record
StepOf(t) ==
    /\ stack'[t] # stack[t] \/ dis'[t] # dis[t] \/ budget' # budget
    /\ \A u \in Threads \ {t} : stack'[u] = stack[u] /\ dis'[u] = dis[u]

\* A thread's flag changes only in steps of that thread
C12_Act == \A t \in Threads : flag'[t] # flag[t] => StepOf(t)

\* A guard operation is a single step that needs no other thread: user code
\* can always enter a guarded region or toggle, and a region whose closure has
\* returned can always exit
C12_NoWait ==
    \A t \in Threads :
        /\ (UserCtx(t) /\ budget > 0) =>
              /\ ENABLED WithHookProtection(t)
              /\ ENABLED BypassHooks(t)
              /\ ENABLED DisableHooks(t)
              /\ ENABLED EnableHooks(t)
              /\ \A fn \in Fns : ENABLED Trampoline(t, fn)
        /\ (TopIs(t, "whp") /\ Top(t).pc = "ret") => ENABLED WhpExit(t)
        /\ (TopIs(t, "bypass") /\ Top(t).pc = "ret") => ENABLED BypassExit(t)

\* C12: the flag is per thread: a thread's flag changes only in guard steps of
\* that thread (so a call on T2 takes the path T2's own flag selects while T1
\* is inside a handler), and no guard operation waits for another thread.
C12_FlagPerThread == []C12_NoWait /\ [][C12_Act]_vars

\* Two threads are each inside a handler of a top-level call of the same
\* function, both on the primary path
C12_Witness ==
    \E t \in Threads, u \in Threads :
        /\ t # u
        /\ TopIs(t, "hook") /\ TopIs(u, "hook")
        /\ Top(t).fn = Top(u).fn
        /\ flag[t] /\ flag[u]
        /\ Len(stack[t]) = 3 /\ Len(stack[u]) = 3
        /\ stack[t][1].path = "primary" /\ ~stack[t][1].flag0
        /\ stack[u][1].path = "primary" /\ ~stack[u][1].flag0

\* Frame i of thread t is a trampoline call made directly by a handler of
\* another intercepted function
CalledFromOtherHandler(t, i) ==
    /\ i > 1
    /\ stack[t][i].k = "whp" /\ stack[t][i].tramp
    /\ stack[t][i - 1].k = "hook" /\ stack[t][i - 1].fn # stack[t][i].fn

\* Such a call goes to the original only
OriginalOnly(t, i) ==
    LET f == stack[t][i]
    IN /\ f.path = "fallback"
       /\ f.index = 0
       /\ f.log \in {<<>>, <<EvOrig>>}
       /\ (f.pc = "run" => i + 1 = Len(stack[t]) /\ stack[t][i + 1].k = "orig")
       /\ (f.pc = "ret" => f.res = OrigVal /\ f.log = <<EvOrig>>)

\* C13 as stated: when a handler of A calls another intercepted function B,
\* B's trampoline takes the fallback path and runs none of B's handlers.
C13_AsStated ==
    \A t \in Threads : \A i \in 1..Len(stack[t]) :
        CalledFromOtherHandler(t, i) => OriginalOnly(t, i)

\* C13, amended: when a handler of A calls another intercepted function B,
\* B's trampoline takes the fallback path and runs none of B's handlers,
\* unless enable_hooks() has been called on the thread since the call of A
\* that runs the handler began.
C13_SharedFlag ==
    \A t \in Threads : \A i \in 1..Len(stack[t]) :
        (CalledFromOtherHandler(t, i) /\ ~stack[t][stack[t][i - 1].ch].en)
            => OriginalOnly(t, i)

\* A handler of one function has called the other function, which has a
\* handler registered, and got the original's value with no handler run
C13_Witness ==
    \E t \in Threads :
        /\ TopIs(t, "hook")
        /\ Top(t).res = OrigVal
        /\ ~stack[t][Top(t).ch].en
        /\ last[t].fn # "-" /\ last[t].fn # Top(t).fn
        /\ last[t].reg0 # <<>>
        /\ last[t].path = "fallback" /\ last[t].log = <<EvOrig>> /\ last[t].ret = OrigVal

\* Thread t is inside the critical section of fn's registry lock: the push of
\* add_hook or the lookup of Chain::call
InCritical(t, fn) ==
    /\ stack[t] # <<>>
    /\ Top(t).fn = fn
    /\ \/ Top(t).k = "addhook"
       \/ Top(t).k = "ccall" /\ Top(t).pc = "get"

\* C14: the registry lock is held only by a thread that is doing the lookup of
\* Chain::call or the push of add_hook, never by a thread that is executing a
\* handler, a closure or the original; the holder can always go on and release
\* it, and a thread that needs the lock (chain.call or add_hook, also from a
\* handler of the same function) never holds it already.
C14_LockScope ==
    /\ \A fn \in Fns :
          lock[fn] # "free" =>
              /\ lock[fn] \in Threads
              /\ InCritical(lock[fn], fn)
              /\ ENABLED (AddHookPush(lock[fn]) \/ ChainGet(lock[fn]))
    /\ \A t \in Threads :
          /\ (UserCtx(t) \/ TopIs(t, "orig")) => \A fn \in Fns : lock[fn] # t
          /\ (TopIs(t, "ccall") /\ Top(t).pc = "lock") => lock[Top(t).fn] # t

\* A handler is inside add_hook on the function it handles, holding the lock,
\* while its own call's chain is in progress
C14_Witness ==
    \E t \in Threads :
        LET n == Len(stack[t])
        IN /\ n >= 4
           /\ stack[t][n].k = "addhook"
           /\ stack[t][n - 1].k = "hook"
           /\ stack[t][n - 1].fn = stack[t][n].fn
           /\ lock[stack[t][n].fn] = t

IsPrefix(a, b) == Len(a) <= Len(b) /\ a = SubSeq(b, 1, Len(a))

\* The registry holds the handlers of all add_hook calls that have returned,
\* in the order they took effect, and every chain in progress was built when
\* the registry was a prefix of what it is now
C15_Inv ==
    /\ hooks = regd
    /\ \A t \in Threads : \A i \in 1..Len(stack[t]) :
          (stack[t][i].k = "whp" /\ stack[t][i].tramp)
              => IsPrefix(stack[t][i].reg0, hooks[stack[t][i].fn])

\* A step leaves a registry as it is, or it is the push of an add_hook and
\* appends that call's handler; every add_hook that returns has appended
C15_Act ==
    /\ \A fn \in Fns :
          \/ hooks'[fn] = hooks[fn]
          \/ \E t \in Threads :
                /\ TopIs(t, "addhook") /\ Top(t).fn = fn
                /\ stack'[t] = Pop(stack[t])
                /\ hooks'[fn] = Append(hooks[fn], Top(t).h)
    /\ \A t \in Threads :
          (TopIs(t, "addhook") /\ stack'[t] # stack[t])
              => hooks'[Top(t).fn] = Append(hooks[Top(t).fn], Top(t).h)

\* C15: the registry is append-only: every add_hook appends exactly its one
\* handler at the end, duplicates included; nothing else changes a registry;
\* add_hook calls of several threads all take effect; a chain built after
\* add_hook returned finds the handler in the registry.
C15_AppendOnly == []C15_Inv /\ [][C15_Act]_vars

\* The same handler is registered twice on one function, and a thread is
\* inside a call of that function that began before the second add_hook
C15_Witness ==
    \E fn \in Fns, t \in Threads :
        /\ Len(hooks[fn]) = 2 /\ hooks[fn][1] = hooks[fn][2]
        /\ stack[t] # <<>>
        /\ stack[t][1].k = "whp" /\ stack[t][1].tramp /\ stack[t][1].fn = fn
        /\ Len(stack[t][1].reg0) = 1

\* The cursor of every call in progress counts the handlers that call has
\* invoked, the first of them at position 1; a completed top-level call with
\* an unchanged registry whose handlers each called chain.call once has run
\* every registered handler in order from the first, then the original
C16_Inv ==
    \A t \in Threads :
        /\ \A i \in 1..Len(stack[t]) :
              LET f == stack[t][i]
              IN (f.k = "whp" /\ f.tramp) =>
                    /\ f.index = Len(Ins(f.log))
                    /\ (f.path = "fallback" => f.index = 0)
                    /\ (Ins(f.log) # <<>> => Ins(f.log)[1] = EvIn(hooks[f.fn][1], 1))
        /\ LET c == last[t]
           IN (c.path = "primary" /\ c.reg0 = c.reg1 /\ OnceEach(c.log)) =>
                 /\ Len(Ins(c.log)) = Len(c.reg0)
                 /\ \A j \in 1..Len(c.reg0) : Ins(c.log)[j] = EvIn(c.reg0[j], j)
                 /\ c.log[Len(c.log) - Len(c.reg0)] = EvOrig

\* A step of one thread changes no cursor and no log of another thread's calls
C16_Act ==
    \A t \in Threads :
        stack'[t] # stack[t] => \A u \in Threads \ {t} : stack'[u] = stack[u]

\* C16: every intercepted call has its own cursor, starting at 0 and shared
\* with no other call or thread: with two threads calling concurrently, each
\* call runs the registered handlers in order from the first, and a step of
\* one call never moves the other's cursor.
C16_OwnCursor == []C16_Inv /\ [][C16_Act]_vars

\* Two threads are inside calls of the same function: one call has invoked the
\* first handler, the other has not done its first lookup yet
C16_Witness ==
    \E t \in Threads, u \in Threads :
        /\ t # u
        /\ TopIs(t, "hook") /\ stack[t][1].tramp /\ stack[t][1].index = 1
        /\ TopIs(u, "ccall") /\ stack[u][1].tramp /\ stack[u][1].index = 0
        /\ Top(u).pc = "lock"
        /\ stack[t][1].fn = stack[u][1].fn

\* A panic unwinds thread t in this step: more than one frame goes at once
Unwinds(t) == Len(stack'[t]) + 2 <= Len(stack[t])

\* C17: with_hook_protection and bypass_hooks reset the flag on every exit
\* path: when a region entered with the flag false fails (its closure panics
\* and the panic is caught further up), the flag is false afterwards, no
\* disable_hooks() being in effect.
C17_ResetOnFailure ==
    [][\A t \in Threads :
          (Unwinds(t) /\ ~stack[t][Len(stack'[t]) + 1].flag0 /\ dis[t] = "no")
              => ~flag'[t]]_vars

\* The handlers every call in progress has invoked are, in order, the first
\* entries of the registry as it is now, one per position the cursor passed
C18_Inv ==
    \A t \in Threads : \A i \in 1..Len(stack[t]) :
        LET f == stack[t][i]
        IN (f.k = "whp" /\ f.tramp) =>
              /\ f.index <= Len(hooks[f.fn])
              /\ Ins(f.log) = InsOf(SubSeq(hooks[f.fn], 1, f.index))

\* The lookup of Chain::call decides on the registry as it is at that step:
\* an entry at the cursor is invoked, also one appended after the call began;
\* only with no entry at the cursor does the call go to the original
C18_Act ==
    \A t \in Threads :
        (TopIs(t, "ccall") /\ Top(t).pc = "get" /\ stack'[t] # stack[t]) =>
            LET c   == Top(t)
                cur == stack[t][c.ch].index
                new == stack'[t][Len(stack'[t])]
            IN /\ Len(stack'[t]) = Len(stack[t]) + 1
               /\ IF cur < Len(hooks[c.fn])
                  THEN new.k = "hook" /\ new.h = hooks[c.fn][cur + 1]
                       /\ stack'[t][c.ch].index = cur + 1
                  ELSE new.k = "orig" /\ stack'[t][c.ch].index = cur

\* C18: Chain::call reads the live registry at every step: a handler appended
\* while a call is in flight is invoked by that call when its cursor gets
\* there, and the handlers a call has invoked are always, in order, a prefix
\* of the current registry.
C18_LiveRegistry == []C18_Inv /\ [][C18_Act]_vars

\* A call that began with one handler registered has invoked two: the second
\* was appended while the call was in flight
C18_Witness ==
    \E t \in Threads :
        /\ TopIs(t, "hook")
        /\ LET f == stack[t][Top(t).ch]
           IN /\ Len(f.reg0) = 1
              /\ f.index = 2
              /\ Ins(f.log) = InsOf(hooks[f.fn])

\* The Chain::call activations in progress on thread t
ChainDepth(t) == Cardinality({i \in 1..Len(stack[t]) : stack[t][i].k = "ccall"})

\* Chain nesting is at most n + 1 for the n handlers of the function called,
\* and a call made by a handler is on the fallback path
C19_Depth ==
    \A t \in Threads :
        stack[t] # <<>> =>
            /\ ChainDepth(t) <= Len(hooks[stack[t][1].fn]) + 1
            /\ \A i \in 2..Len(stack[t]) :
                  (stack[t][i].k = "whp") => stack[t][i].path = "fallback"

\* C19: with the registry unmodified, every handler and the original
\* returning, every handler calling chain.call at most once and nothing
\* calling enable_hooks, every top-level trampoline call returns, and the
\* chain is never nested deeper than n + 1, also when handlers call the
\* function they handle.
C19_CallReturns ==
    /\ []C19_Depth
    /\ \A t \in Threads : (stack[t] # <<>>) ~> (stack[t] = <<>>)

\* The last of two handlers of a function has called that function from
\* inside: the chain is nested two deep and the inner call is at the original
C19_Witness ==
    \E t \in Threads :
        /\ Len(stack[t]) = 7
        /\ Len(hooks[stack[t][1].fn]) = 2
        /\ ChainDepth(t) = 2
        /\ stack[t][5].k = "hook"
        /\ stack[t][6].k = "whp" /\ stack[t][6].fn = stack[t][1].fn
        /\ stack[t][7].k = "orig"

====
